---- MODULE Spec2Model ----
(***************************************************************************)
(* Matrix<T> of src/main.cpp: the serial, std::async and std::thread       *)
(* multipliers and the benchmark that runs them.  Elements are integers,   *)
(* so that sums are exact.  The main thread's position is pc; every        *)
(* std::async task and every std::thread is one entry of units.            *)
(***************************************************************************)
EXTENDS Integers, Sequences, FiniteSets, TLC

\* ---------------------------------------------------------------- bounds
MaxRows == 2     \* rows of the left operand, 0..MaxRows
MaxInner == 1    \* cols of the left operand and rows of the right one
MaxCols == 1     \* cols of the right operand
MaxSeed == 0     \* seeds std::random_device hands to the generator
MaxTall == 5     \* rows of the operands that have no column, 0..MaxTall
MaxHw == 3       \* values std::thread::hardware_concurrency() reports, 0..MaxHw

\* randomInit(T min = 0, T max = 100)
DefaultMin == 0
DefaultMax == 100

Methods == {"serial", "async", "thread_pool"}

\* ---------------------------------------------------------------- state
VARIABLES
  A,            \* *this of the multiplier calls
  B,            \* other
  driver,       \* who calls the multipliers: "benchmark" or "direct"
  method,       \* the multiplier being called
  pc,           \* position of the calling thread
  result,       \* the local Matrix<T> result of the running multiplier
  i, j, k,      \* loop variables of the calling thread
  num_threads, chunk_size, remainder, start, t,   \* locals of multiply_thread_pool
  units,        \* futures / threads: the units of execution launched by the call
  w,            \* number of units already waited for / joined
  writes,       \* per element of result, who stored into it, in order (0: the caller)
  returned,     \* per multiplier, how its call ended and what it returned
  stdout,       \* lines written by benchmark
  now,          \* the clock: one tick per step of the program
  t_start       \* benchmark's local start, the clock read before a call

vars == <<A, B, driver, method, pc, result, i, j, k, num_threads, chunk_size,
          remainder, start, t, units, w, writes, returned, stdout, now, t_start>>

\* Every step of the program takes one tick of the clock.
Tick == now' = now + 1

\* ---------------------------------------------------------------- Matrix
\* The elements left as they come, not set to 0.
MatrixUninitialised(r, c) ==
  [rows |-> r, cols |-> c, data |-> [x \in 0..(r - 1) |-> [y \in 0..(c - 1) |-> 1]]]

\* Matrix(size_t r, size_t c): r rows of c zeros.
Matrix(r, c) ==
  [rows |-> r, cols |-> c, data |-> [x \in 0..(r - 1) |-> [y \in 0..(c - 1) |-> 0]]]

\* No matrix object: the local result outside its lifetime.
NoMatrix == [rows |-> -1, cols |-> -1, data |-> << >>]

\* One draw of the generator: the engine's state after n draws from seed s.
RECURSIVE gen(_, _)
gen(s, n) == IF n = 0 THEN s ELSE (21 * gen(s, n - 1) + 7) % 100

\* dis(gen): the n-th draw, a value of [min, max).
dis(s, n, min, max) == min + (gen(s, n) % (max - min))

\* randomInit: every element overwritten, row by row, by successive draws.
randomInit(m, s, min, max) ==
  [m EXCEPT !.data = [x \in 0..(m.rows - 1) |->
                        [y \in 0..(m.cols - 1) |-> dis(s, x * m.cols + y + 1, min, max)]]]

\* = written where += is meant.
AddToOverwrites(m, x, y, v) == [m EXCEPT !.data[x][y] = v]

\* result.data[i][j] += v
AddTo(m, x, y, v) == [m EXCEPT !.data[x][y] = @ + v]

\* result.data[i][j] = v (the store half of += in a unit)
Store(m, x, y, v) == [m EXCEPT !.data[x][y] = v]

\* data[i][j] += ... written where result.data[i][j] += ... is meant.
AssignedToThis(res, a) == [result |-> result, this |-> [a EXCEPT !.data = res.data]]

\* The matrices after result.data[i][j] += ...: the multipliers are const
\* members with a const operand, the element assigned is one of result.
Assigned(res, a) == [result |-> res, this |-> a]

\* The stores into a fresh result: none yet.
NoWrites(r, c) == [x \in 0..(r - 1) |-> [y \in 0..(c - 1) |-> << >>]]

\* The store of unit n (0: the calling thread) into result.data[x][y], recorded.
Written(ws, x, y, n) == [ws EXCEPT ![x][y] = Append(@, n)]

\* The column counts compared, instead of A's columns with B's rows.
IncompatibleCols(a, b) == a.cols # b.cols

\* cols != other.rows
Incompatible(a, b) == a.cols # b.rows

\* data[i][k] * other.data[k][j]
Term(x, y, z) == A.data[x][z] * B.data[z][y]

\* ---------------------------------------------------------------- outcomes
NotCalled == [st |-> "none", val |-> NoMatrix]
Threw == [st |-> "threw", val |-> NoMatrix]
Returned(m) == [st |-> "returned", val |-> m]

\* ---------------------------------------------------------------- Init
\* The concrete operands [[1,2],[3,4]] and [[5,6],[7,8]].
ScenarioA == [rows |-> 2, cols |-> 2, data |-> [x \in 0..1 |-> [y \in 0..1 |-> 2 * x + y + 1]]]
ScenarioB == [rows |-> 2, cols |-> 2, data |-> [x \in 0..1 |-> [y \in 0..1 |-> 2 * x + y + 5]]]

\* The K x K identity matrix.
Identity(n) ==
  [rows |-> n, cols |-> n,
   data |-> [x \in 0..(n - 1) |-> [y \in 0..(n - 1) |-> IF x = y THEN 1 ELSE 0]]]

Locals ==
  /\ driver = "none" /\ method = "none" /\ pc = "main"
  /\ result = NoMatrix
  /\ i = 0 /\ j = 0 /\ k = 0
  /\ num_threads = 0 /\ chunk_size = 0 /\ remainder = 0 /\ start = 0 /\ t = 0
  /\ units = << >> /\ w = 0 /\ writes = << >>
  /\ returned = [m \in Methods |-> NotCalled]
  /\ stdout = << >>
  /\ now = 0 /\ t_start = 0

\* main: two matrices are constructed and randomised, each from its own seed.
\* A matrix without columns has no element: randomInit leaves it as constructed.
Init ==
  /\ \/ \E r \in 0..MaxRows, c \in 0..MaxInner, r2 \in 0..MaxInner, c2 \in 0..MaxCols,
          sa \in 0..MaxSeed, sb \in 0..MaxSeed :
          /\ A = randomInit(Matrix(r, c), sa, DefaultMin, DefaultMax)
          /\ B = randomInit(Matrix(r2, c2), sb, DefaultMin, DefaultMax)
     \/ \E r \in 0..MaxTall, c2 \in 0..MaxCols :
          /\ A = randomInit(Matrix(r, 0), 0, DefaultMin, DefaultMax)
          /\ B = randomInit(Matrix(0, c2), 0, DefaultMin, DefaultMax)
     \/ A = ScenarioA /\ B = ScenarioB
     \/ \E r \in 0..MaxRows, c \in 0..MaxInner, sa \in 0..MaxSeed :
          /\ A = randomInit(Matrix(r, c), sa, DefaultMin, DefaultMax)
          /\ B = Identity(c)
  /\ Locals

\* ---------------------------------------------------------------- drivers
\* A.benchmark(B): the first call is multiply_serial.
Benchmark ==
  /\ pc = "main"
  /\ driver' = "benchmark" /\ method' = "serial" /\ pc' = "call"
  /\ t_start' = now
  /\ Tick /\ UNCHANGED <<A, B, result, i, j, k, num_threads, chunk_size, remainder, start,
                 t, units, w, writes, returned, stdout>>

\* A client calls one multiplier of the public interface.
DirectCall(m) ==
  /\ pc = "main"
  /\ driver' = "direct" /\ method' = m /\ pc' = "call"
  /\ Tick /\ UNCHANGED <<A, B, t_start, result, i, j, k, num_threads, chunk_size, remainder, start,
                 t, units, w, writes, returned, stdout>>

\* The name benchmark prints for a multiplier.
Label(m) ==
  CASE m = "serial" -> "Serial Multiplication Time: "
    [] m = "async" -> "Async Multiplication Time: "
    [] m = "thread_pool" -> "Thread Pool Multiplication Time: "

\* The second and third call swapped.
FollowingSwapped(m) == IF m = "serial" THEN "thread_pool" ELSE "async"

\* The multiplier benchmark calls after m.
Following(m) == IF m = "serial" THEN "async" ELSE "thread_pool"

\* duration_cast<microseconds>(end - start).count()
Duration(from, to) == to - from

\* std::cout << "... Multiplication Time: " << duration.count() << " µs\n"
Line(m, d) == <<Label(m), d, " µs\n">>

\* benchmark after a multiplier returned: the clock is read, the line printed,
\* the clock read again and the next multiplier called.
BenchmarkNext ==
  /\ pc = "ret" /\ driver = "benchmark"
  /\ stdout' = Append(stdout, Line(method, Duration(t_start, now)))
  /\ t_start' = now
  /\ IF method = "thread_pool"
       THEN pc' = "exit" /\ method' = method
       ELSE pc' = "call" /\ method' = Following(method)
  /\ Tick /\ UNCHANGED <<A, B, driver, result, i, j, k, num_threads, chunk_size, remainder,
                 start, t, units, w, writes, returned>>

\* The client's call returned.
DirectReturn ==
  /\ pc = "ret" /\ driver = "direct"
  /\ pc' = "exit"
  /\ Tick /\ UNCHANGED <<A, B, t_start, driver, method, result, i, j, k, num_threads, chunk_size,
                 remainder, start, t, units, w, writes, returned, stdout>>

\* ---------------------------------------------------------------- multiply_serial
\* The exception caught and the run continued.
ThrowSwallowed ==
  /\ pc' = "ret"
  /\ returned' = [returned EXCEPT ![method] = Threw]
  /\ Tick /\ UNCHANGED <<A, B, t_start, driver, method, result, i, j, k, num_threads,
                         chunk_size, remainder, start, t, units, w, writes, stdout>>

\* throw std::invalid_argument: nothing catches it.
Throw ==
  /\ pc' = "throw"
  /\ returned' = [returned EXCEPT ![method] = Threw]
  /\ Tick /\ UNCHANGED <<A, B, t_start, driver, method, result, i, j, k, num_threads, chunk_size,
                 remainder, start, t, units, w, writes, stdout>>

\* return result
Return ==
  /\ pc' = "ret"
  /\ returned' = [returned EXCEPT ![method] = Returned(result)]
  /\ Tick /\ UNCHANGED <<A, B, t_start, driver, method, result, i, j, k, num_threads, chunk_size,
                 remainder, start, t, units, w, writes, stdout>>

SerialEnter ==
  /\ pc = "call" /\ method = "serial"
  /\ IF Incompatible(A, B)
       THEN Throw
       ELSE /\ result' = Matrix(A.rows, B.cols)
            /\ writes' = NoWrites(A.rows, B.cols)
            /\ i' = 0 /\ j' = 0 /\ k' = 0
            /\ units' = << >> /\ w' = 0
            /\ pc' = "serial_loop"
            /\ Tick /\ UNCHANGED <<A, B, t_start, driver, method, num_threads, chunk_size, remainder,
                           start, t, returned, stdout>>

\* One test of the three nested loops, and the body when all three hold.
SerialStep ==
  /\ pc = "serial_loop"
  /\ IF i < A.rows
       THEN /\ IF j < B.cols
                 THEN IF k < A.cols
                        THEN /\ result' = Assigned(AddTo(result, i, j, Term(i, j, k)), A).result
                             /\ A' = Assigned(AddTo(result, i, j, Term(i, j, k)), A).this
                             /\ writes' = Written(writes, i, j, 0)
                             /\ k' = k + 1 /\ j' = j /\ i' = i
                        ELSE /\ j' = j + 1 /\ k' = 0 /\ i' = i
                             /\ UNCHANGED <<result, writes, A>>
                 ELSE /\ i' = i + 1 /\ j' = 0 /\ k' = 0
                      /\ UNCHANGED <<result, writes, A>>
            /\ Tick /\ UNCHANGED <<B, t_start, driver, method, pc, num_threads, chunk_size,
                           remainder, start, t, units, w, returned, stdout>>
       ELSE Return

\* ---------------------------------------------------------------- units
\* A unit of execution as launched: the lambda's captures (start, thread_rows)
\* and its loop variables.  The lambda of multiply_async captures the row i
\* and has no row loop: it is the unit of the single row i.
Unit(first, count) ==
  [start |-> first, thread_rows |-> count, i |-> first, j |-> 0, k |-> 0,
   tmp |-> 0, st |-> "run"]

\* i captured by reference: the unit reads the launcher's i.
RowByReference(u) == IF method = "async" /\ i < A.rows THEN i ELSE u.i

\* The row a unit works on: its own loop variable i, a copy of the value the
\* launcher's variable had when the lambda was made ([&, i], [&, start,
\* thread_rows]: captured by value).
Row(u) == u.i

\* The three loop tests of a unit hold: the body is executed once more.
HasWork(u) == u.i < u.start + u.thread_rows /\ u.j < B.cols /\ u.k < A.cols

\* ++k, and the loops around it, up to the next execution of the body.
Advance(u) ==
  IF u.k + 1 < A.cols THEN [u EXCEPT !.k = @ + 1]
  ELSE IF u.j + 1 < B.cols THEN [u EXCEPT !.j = @ + 1, !.k = 0]
  ELSE [u EXCEPT !.i = @ + 1, !.j = 0, !.k = 0]

\* The unit has left its loops.
Finish(u) == [u EXCEPT !.st = IF HasWork(u) THEN "run" ELSE "done"]

\* result.data[i][j] += ..., first half: the unit reads the element.
UnitLoad(n) ==
  /\ units[n].st = "run" /\ HasWork(units[n])
  /\ units' = [units EXCEPT ![n].tmp = result.data[Row(units[n])][units[n].j],
                            ![n].st = "loaded"]
  /\ Tick /\ UNCHANGED <<A, B, t_start, driver, method, pc, result, i, j, k, num_threads, chunk_size,
                 remainder, start, t, w, writes, returned, stdout>>

\* result.data[i][j] += ..., second half: the unit writes the sum back and
\* goes on to the next iteration, or ends.
UnitStore(n) ==
  /\ units[n].st = "loaded"
  /\ LET sum == units[n].tmp + Term(Row(units[n]), units[n].j, units[n].k)
         e == Assigned(Store(result, Row(units[n]), units[n].j, sum), A)
     IN result' = e.result /\ A' = e.this
  /\ writes' = Written(writes, Row(units[n]), units[n].j, n)
  /\ units' = [units EXCEPT ![n] = Finish(Advance([units[n] EXCEPT !.st = "run"]))]
  /\ Tick /\ UNCHANGED <<B, t_start, driver, method, pc, i, j, k, num_threads, chunk_size,
                 remainder, start, t, w, returned, stdout>>

\* A unit whose loops execute no body ends at once.
UnitExit(n) ==
  /\ units[n].st = "run" /\ ~HasWork(units[n])
  /\ units' = [units EXCEPT ![n].st = "done"]
  /\ Tick /\ UNCHANGED <<A, B, t_start, driver, method, pc, result, i, j, k, num_threads, chunk_size,
                 remainder, start, t, w, writes, returned, stdout>>

\* ---------------------------------------------------------------- multiply_async
AsyncEnter ==
  /\ pc = "call" /\ method = "async"
  /\ IF Incompatible(A, B)
       THEN Throw
       ELSE /\ result' = Matrix(A.rows, B.cols)
            /\ writes' = NoWrites(A.rows, B.cols)
            /\ units' = << >> /\ w' = 0
            /\ i' = 0
            /\ pc' = "async_launch"
            /\ Tick /\ UNCHANGED <<A, B, t_start, driver, method, j, k, num_threads, chunk_size,
                           remainder, start, t, returned, stdout>>

\* The launch loop ends one row early.
AsyncLaunchStopsEarly ==
  /\ pc = "async_launch"
  /\ IF i + 1 < A.rows
       THEN /\ units' = Append(units, Unit(i, 1))
            /\ i' = i + 1
            /\ pc' = pc
       ELSE /\ pc' = "async_wait"
            /\ UNCHANGED <<units, i>>
  /\ Tick /\ UNCHANGED <<A, B, t_start, driver, method, result, j, k, num_threads,
                         chunk_size, remainder, start, t, w, writes, returned, stdout>>

\* futures.push_back(std::async(std::launch::async, [&, i]() {...}))
AsyncLaunch ==
  /\ pc = "async_launch"
  /\ IF i < A.rows
       THEN /\ units' = Append(units, Unit(i, 1))
            /\ i' = i + 1
            /\ pc' = pc
       ELSE /\ pc' = "async_wait"
            /\ UNCHANGED <<units, i>>
  /\ Tick /\ UNCHANGED <<A, B, t_start, driver, method, result, j, k, num_threads, chunk_size,
                 remainder, start, t, w, writes, returned, stdout>>

\* A wait that does not block.
EndedAlways(u) == TRUE

\* A join that only a unit that had rows to work on lets through.
EndedIfRows(u) == u.st = "done" /\ u.thread_rows > 0

\* fut.wait() / thread.join() returns once the unit has ended.
Ended(u) == u.st = "done"

\* for (auto &fut : futures) fut.wait(); return result
AsyncWait ==
  /\ pc = "async_wait"
  /\ IF w < Len(units)
       THEN /\ Ended(units[w + 1])
            /\ w' = w + 1
            /\ Tick /\ UNCHANGED <<A, B, t_start, driver, method, pc, result, i, j, k, num_threads,
                           chunk_size, remainder, start, t, units, writes, returned, stdout>>
       ELSE /\ w' = w
            /\ Return

\* ---------------------------------------------------------------- multiply_thread_pool
PoolEnter ==
  /\ pc = "call" /\ method = "thread_pool"
  /\ IF Incompatible(A, B)
       THEN Throw
       ELSE /\ result' = Matrix(A.rows, B.cols)
            /\ writes' = NoWrites(A.rows, B.cols)
            /\ \E n \in 0..MaxHw : num_threads' = n
            /\ units' = << >> /\ w' = 0
            /\ pc' = "pool_partition"
            /\ Tick /\ UNCHANGED <<A, B, t_start, driver, method, i, j, k, chunk_size, remainder,
                           start, t, returned, stdout>>

\* The quotient rounded up.
ChunkSizeRoundedUp(rows, n) == (rows \div n) + 1

\* rows / num_threads
ChunkSize(rows, n) == rows \div n

\* rows % num_threads
Remainder(rows, n) == rows % n

\* size_t chunk_size = rows / num_threads; size_t remainder = rows % num_threads;
\* size_t start = 0.  With num_threads = 0 both divisions are undefined: the
\* process traps, or the divisions yield some values and the call goes on.
PoolPartition ==
  /\ pc = "pool_partition"
  /\ IF num_threads = 0
       THEN \/ /\ pc' = "fault"
               /\ UNCHANGED <<chunk_size, remainder, start, t>>
            \/ /\ \E q \in 0..A.rows, r \in 0..A.rows :
                    chunk_size' = q /\ remainder' = r
               /\ start' = 0 /\ t' = 0
               /\ pc' = "pool_launch"
       ELSE /\ chunk_size' = ChunkSize(A.rows, num_threads)
            /\ remainder' = Remainder(A.rows, num_threads)
            /\ start' = 0 /\ t' = 0
            /\ pc' = "pool_launch"
  /\ Tick /\ UNCHANGED <<A, B, t_start, driver, method, result, i, j, k, num_threads, units, w,
                 writes, returned, stdout>>

\* t <= remainder where t < remainder is meant.
ThreadRowsOffByOne(chunk, rem, n) == chunk + (IF n <= rem THEN 1 ELSE 0)

\* chunk_size + (t < remainder ? 1 : 0)
ThreadRows(chunk, rem, n) == chunk + (IF n < rem THEN 1 ELSE 0)

\* start never advanced.
NextStartStuck(s, rows) == s

\* start += thread_rows
NextStart(s, rows) == s + rows

\* No thread made for a partition without rows.
PoolLaunchSkipsEmpty ==
  /\ pc = "pool_launch"
  /\ IF t < num_threads
       THEN /\ units' = IF ThreadRows(chunk_size, remainder, t) = 0 THEN units
                         ELSE Append(units, Unit(start, ThreadRows(chunk_size, remainder, t)))
            /\ start' = NextStart(start, ThreadRows(chunk_size, remainder, t))
            /\ t' = t + 1
            /\ pc' = pc
       ELSE /\ pc' = "pool_join"
            /\ UNCHANGED <<units, start, t>>
  /\ Tick /\ UNCHANGED <<A, B, t_start, driver, method, result, i, j, k, num_threads,
                         chunk_size, remainder, w, writes, returned, stdout>>

\* threads.emplace_back([&, start, thread_rows]() {...}); start += thread_rows
PoolLaunch ==
  /\ pc = "pool_launch"
  /\ IF t < num_threads
       THEN /\ units' = Append(units, Unit(start, ThreadRows(chunk_size, remainder, t)))
            /\ start' = NextStart(start, ThreadRows(chunk_size, remainder, t))
            /\ t' = t + 1
            /\ pc' = pc
       ELSE /\ pc' = "pool_join"
            /\ UNCHANGED <<units, start, t>>
  /\ Tick /\ UNCHANGED <<A, B, t_start, driver, method, result, i, j, k, num_threads, chunk_size,
                 remainder, w, writes, returned, stdout>>

\* for (auto &thread : threads) thread.join(); return result
PoolJoin ==
  /\ pc = "pool_join"
  /\ IF w < Len(units)
       THEN /\ Ended(units[w + 1])
            /\ w' = w + 1
            /\ Tick /\ UNCHANGED <<A, B, t_start, driver, method, pc, result, i, j, k, num_threads,
                           chunk_size, remainder, start, t, units, writes, returned, stdout>>
       ELSE /\ w' = w
            /\ Return

Next ==
  \/ Benchmark
  \/ \E m \in Methods : DirectCall(m)
  \/ BenchmarkNext
  \/ DirectReturn
  \/ SerialEnter
  \/ SerialStep
  \/ AsyncEnter
  \/ AsyncLaunch
  \/ AsyncWait
  \/ PoolEnter
  \/ PoolPartition
  \/ PoolLaunch
  \/ PoolJoin
  \/ \E n \in 1..Len(units) : UnitLoad(n)
  \/ \E n \in 1..Len(units) : UnitStore(n)
  \/ \E n \in 1..Len(units) : UnitExit(n)

Spec == Init /\ [][Next]_vars

\* The calling thread and every launched unit are scheduled again and again.
FairSpec ==
  /\ Spec
  /\ WF_vars(Next)
  /\ \A n \in 1..(MaxRows + MaxTall + MaxHw) :
       WF_vars(n <= Len(units) /\ (UnitLoad(n) \/ UnitStore(n) \/ UnitExit(n)))

\* ---------------------------------------------------------------- the product
\* The sum over z in [0, n) of A[x][z] * B[z][y].
RECURSIVE Dot(_, _, _)
Dot(x, y, n) ==
  IF n = 0 THEN 0 ELSE Dot(x, y, n - 1) + A.data[x][n - 1] * B.data[n - 1][y]

\* The R x C matrix of the sums over the whole contraction dimension.
Product ==
  [rows |-> A.rows, cols |-> B.cols,
   data |-> [x \in 0..(A.rows - 1) |-> [y \in 0..(B.cols - 1) |-> Dot(x, y, A.cols)]]]

\* [[19,22],[43,50]]
ScenarioProduct ==
  [rows |-> 2, cols |-> 2, data |-> [x \in 0..1 |-> [y \in 0..1 |->
     IF x = 0 THEN (IF y = 0 THEN 19 ELSE 22) ELSE (IF y = 0 THEN 43 ELSE 50)]]]

Concurrent == {"async", "thread_pool"}

\* The call of multiplier m has returned.
HasReturned(m) == returned[m].st = "returned"

\* The rows of a unit's range [start, start + thread_rows).
Rows(u) == u.start .. (u.start + u.thread_rows - 1)

\* The unit is inside a read-modify-write of an element, or about to begin one.
Accessing(u) == u.st = "loaded" \/ (u.st = "run" /\ HasWork(u))

\* The units that stored into element (x, y).
Writers(x, y) == {writes[x][y][n] : n \in 1..Len(writes[x][y])}

\* ---------------------------------------------------------------- claims
\* C1: for all operands and every interleaving of the units, the three
\* multipliers return element-wise equal results.
MultipliersAgree ==
  \A m1 \in Methods, m2 \in Methods :
    (HasReturned(m1) /\ HasReturned(m2)) => returned[m1].val = returned[m2].val

\* What holds of C1 in the code: every multiplier that returns, returns the
\* product, unless multiply_thread_pool ran with a parallelism of zero.
AgreeWithPositiveParallelism ==
  \A m \in Methods :
    (HasReturned(m) /\ (m = "thread_pool" => num_threads >= 1))
      => returned[m].val = Product

\* C2: with A.cols # B.rows every multiplier throws before it launches a unit
\* and before it writes (or even allocates) a result element.
MismatchThrowsFirst ==
  A.cols # B.rows =>
    /\ pc \in {"main", "call", "throw"}
    /\ units = << >> /\ result = NoMatrix /\ writes = << >>
    /\ \A m \in Methods : ~HasReturned(m)
    /\ pc = "throw" => returned[method] = Threw

MismatchThrown == A.cols # B.rows /\ pc = "throw" /\ method = "async"

\* C3: the parallelism multiply_thread_pool divides by is a positive integer
\* (0 reported by the platform falls back to 1), so rows / P and rows % P never
\* divide by zero.
ParallelismPositive ==
  (method = "thread_pool" /\ pc \in {"pool_partition", "pool_launch", "pool_join", "fault"})
    => (num_threads >= 1 /\ pc # "fault")

\* C4: for R >= 0 and P >= 1 the partitioning yields exactly P contiguous row
\* ranges in increasing row order, whose union is [0, R), pairwise disjoint,
\* sizes differing by at most 1, exactly the first R mod P of size
\* floor(R/P)+1 and the others of size floor(R/P).
PartitionCoversRows ==
  (method = "thread_pool" /\ pc \in {"pool_launch", "pool_join", "ret", "exit"}
     /\ num_threads >= 1) =>
    /\ Len(units) = t
    /\ start = (IF t = 0 THEN 0 ELSE units[t].start + units[t].thread_rows)
    /\ \A n \in 1..Len(units) :
         /\ units[n].start = (IF n = 1 THEN 0
                                ELSE units[n - 1].start + units[n - 1].thread_rows)
         /\ units[n].thread_rows =
              (A.rows \div num_threads) + (IF n <= A.rows % num_threads THEN 1 ELSE 0)
    /\ pc # "pool_launch" =>
         /\ Len(units) = num_threads
         /\ UNION {Rows(units[n]) : n \in 1..Len(units)} = 0..(A.rows - 1)
         /\ \A n \in 1..Len(units), m \in 1..Len(units) :
              /\ n # m => Rows(units[n]) \cap Rows(units[m]) = {}
              /\ units[n].thread_rows - units[m].thread_rows \in {-1, 0, 1}
              /\ n < m => units[n].thread_rows >= units[m].thread_rows
         /\ Cardinality({n \in 1..Len(units) :
                           units[n].thread_rows = (A.rows \div num_threads) + 1})
              = A.rows % num_threads

UnevenPartition ==
  /\ method = "thread_pool" /\ pc = "pool_join"
  /\ num_threads = 3 /\ A.rows = 5

\* C5: within one call no two units ever write or read-modify-write the same
\* output element: an async unit touches only its own row, a thread-pool unit
\* only the rows of its own range.
DisjointWrites ==
  (method \in Concurrent /\ pc # "call") =>
    /\ \A n \in 1..Len(units), m \in 1..Len(units) :
         n # m =>
           /\ Rows(units[n]) \cap Rows(units[m]) = {}
           /\ (Accessing(units[n]) /\ Accessing(units[m]))
                => <<units[n].i, units[n].j>> # <<units[m].i, units[m].j>>
    /\ \A n \in 1..Len(units) :
         /\ Accessing(units[n]) => units[n].i \in Rows(units[n])
         /\ method = "async" => Rows(units[n]) = {n - 1}
    /\ \A x \in DOMAIN writes : \A y \in DOMAIN writes[x] :
         /\ Cardinality(Writers(x, y)) <= 1
         /\ \A n \in Writers(x, y) : n \in 1..Len(units) /\ x \in Rows(units[n])

UnitsWritingTogether ==
  /\ method = "thread_pool" /\ Len(units) >= 2
  /\ units[1].st = "loaded" /\ units[2].st = "loaded"
  /\ writes[units[1].i][units[1].j] # << >>

\* C6: multiply_async and multiply_thread_pool return only after every unit
\* they launched has ended: at the return no unit runs and result holds its
\* final value, the one returned.
JoinBeforeReturn ==
  (method \in Concurrent /\ pc \in {"ret", "exit"}) =>
    /\ \A n \in 1..Len(units) : units[n].st = "done"
    /\ w = Len(units)
    /\ returned[method] = Returned(result)

ReturnedAfterJoin ==
  /\ method = "async" /\ pc = "ret" /\ Len(units) = 2
  /\ result.cols > 0 /\ A.cols > 0

\* C7: multiply_serial returns the matrix whose element (i, j) is the sum over
\* k of A[i][k] * B[k][j], built row by row, then column by column, then along
\* the contraction index; [[1,2],[3,4]] times [[5,6],[7,8]] is [[19,22],[43,50]].
SerialComputesProduct ==
  /\ HasReturned("serial") => returned["serial"].val = Product
  /\ (HasReturned("serial") /\ A = ScenarioA /\ B = ScenarioB)
       => returned["serial"].val = ScenarioProduct
  /\ pc = "serial_loop" =>
       /\ result.rows = A.rows /\ result.cols = B.cols
       /\ \A x \in 0..(A.rows - 1), y \in 0..(B.cols - 1) :
            result.data[x][y] =
              IF x < i \/ (x = i /\ y < j) THEN Dot(x, y, A.cols)
              ELSE IF x = i /\ y = j THEN Dot(x, y, k)
              ELSE 0

SerialScenarioReturned ==
  HasReturned("serial") /\ A = ScenarioA /\ B = ScenarioB

\* C8: with R < P multiply_thread_pool makes exactly P - R empty partitions,
\* whose units do no work and end at once; the call neither deadlocks nor
\* fails, and returns the serial result.
FewerRowsThanThreads ==
  (method = "thread_pool" /\ A.rows < num_threads
     /\ pc \in {"pool_launch", "pool_join", "ret", "exit", "fault", "throw"}) =>
    /\ pc \notin {"fault", "throw"}
    /\ pc # "exit" => ENABLED Next
    /\ \A n \in 1..Len(units) :
         units[n].thread_rows = 0 =>
           /\ units[n].st \in {"run", "done"}
           /\ ~HasWork(units[n])
           /\ \A x \in DOMAIN writes : \A y \in DOMAIN writes[x] : n \notin Writers(x, y)
    /\ pc \in {"pool_join", "ret", "exit"} =>
         Cardinality({n \in 1..Len(units) : units[n].thread_rows = 0})
           = num_threads - A.rows
    /\ pc \in {"ret", "exit"} =>
         /\ returned["thread_pool"] = Returned(Product)
         /\ HasReturned("serial") => returned["thread_pool"].val = returned["serial"].val

EmptyPartitionsReturned ==
  /\ driver = "benchmark" /\ method = "thread_pool" /\ pc = "ret"
  /\ A.rows = 2 /\ num_threads = 3 /\ A.cols > 0 /\ B.cols > 0

\* C9: an R x 0 matrix times a 0 x C matrix gives, with each of the three
\* multipliers and without error, the R x C matrix of zeros.
ZeroInnerGivesZeros ==
  (A.cols = 0 /\ B.rows = 0) =>
    /\ pc \notin {"fault", "throw"}
    /\ \A m \in Methods : HasReturned(m) => returned[m].val = Matrix(A.rows, B.cols)

\* C10: every call whose dimension precondition holds runs to completion: while
\* it is in progress some step of the caller or of a unit is always possible.
EveryCallCompletes ==
  (A.cols = B.rows /\ pc \notin {"main", "exit"}) => ENABLED Next

\* What holds of C10 in the code under fair scheduling: a call whose
\* precondition holds returns, unless multiply_thread_pool got a parallelism
\* of zero and trapped.
CompletesUnlessTrapped ==
  (A.cols = B.rows /\ pc = "call") ~> (pc \in {"ret", "fault"})

\* ---------------------------------------------------------------- claims, continued
\* The calling thread is inside a multiplier, or has just returned from one.
InCall ==
  pc \in {"serial_loop", "async_launch", "async_wait", "pool_partition",
          "pool_launch", "pool_join", "fault", "ret"}

\* Some element of result has been stored into.
SomeStore == \E x \in DOMAIN writes : \E y \in DOMAIN writes[x] : writes[x][y] # << >>

\* C11: both operands are read-only for the whole of every multiplier call and
\* of benchmark: no step changes the dimensions or an element of A or of B.
OperandsReadOnly == [][A' = A /\ B' = B]_vars

StoredWhileShared ==
  /\ method = "thread_pool" /\ pc = "pool_join" /\ Len(units) >= 2
  /\ SomeStore /\ \E n \in 1..Len(units) : units[n].st = "loaded"

\* C12: benchmark runs the three strategies strictly one after the other, each
\* started only after the one before has returned, and writes exactly three
\* lines "<name> Multiplication Time: <integer> µs" in the order serial,
\* async, thread pool.
BenchmarkOrder == <<"serial", "async", "thread_pool">>

BenchmarkNames ==
  <<"Serial Multiplication Time: ", "Async Multiplication Time: ",
    "Thread Pool Multiplication Time: ">>

BenchmarkInSequence ==
  driver = "benchmark" =>
    /\ Len(stdout) <= 3
    /\ \A n \in 1..Len(stdout) :
         /\ Len(stdout[n]) = 3
         /\ stdout[n][1] = BenchmarkNames[n]
         /\ stdout[n][2] \in Int
         /\ stdout[n][3] = " µs\n"
         /\ HasReturned(BenchmarkOrder[n])
    /\ pc = "exit" <=> Len(stdout) = 3
    /\ pc # "exit" => method = BenchmarkOrder[Len(stdout) + 1]
    /\ \A n \in 1..3 :
         (n > Len(stdout) /\ BenchmarkOrder[n] # method)
           => returned[BenchmarkOrder[n]] = NotCalled
    /\ \A n \in 1..3 :
         (BenchmarkOrder[n] = method /\ pc \notin {"ret", "exit", "throw"})
           => returned[method] = NotCalled

BenchmarkDone == driver = "benchmark" /\ pc = "exit" /\ A.rows = 2 /\ B.cols = 2

\* C13: with A.cols # B.rows benchmark lets the error of its first call go up
\* to its caller: nothing is retried or caught, no further strategy runs, no
\* unit is launched, and the run ends there.
BenchmarkMismatchFatal ==
  (driver = "benchmark" /\ A.cols # B.rows) =>
    /\ method = "serial" /\ pc \in {"call", "throw"}
    /\ units = << >> /\ stdout = << >>
    /\ returned["async"] = NotCalled /\ returned["thread_pool"] = NotCalled
    /\ pc = "call" => returned["serial"] = NotCalled
    /\ pc = "throw" => (returned["serial"] = Threw /\ ~ENABLED Next)

BenchmarkThrew == driver = "benchmark" /\ A.cols # B.rows /\ pc = "throw"

\* C14: for every A (R x K) and the K x K identity I, each of the three
\* multipliers applied to (A, I) returns a matrix equal to A.
IdentityIsNeutral ==
  B = Identity(A.cols) =>
    \A m \in Methods : HasReturned(m) => returned[m].val = A

\* What holds of C14 in the code: the same, unless multiply_thread_pool ran
\* with a parallelism of zero.
IdentityNeutralWithPositiveParallelism ==
  B = Identity(A.cols) =>
    \A m \in Methods :
      (HasReturned(m) /\ (m = "thread_pool" => num_threads >= 1))
        => returned[m].val = A

\* C15: multiply_thread_pool launches exactly P units per call, one per
\* partition, whatever the number of rows (0 and fewer than P included).
PoolLaunchesP ==
  (method = "thread_pool" /\ pc \in {"pool_launch", "pool_join", "ret", "exit"}) =>
    /\ Len(units) = t /\ t <= num_threads
    /\ pc # "pool_launch" => Len(units) = num_threads

UnitsWithoutRows ==
  /\ method = "thread_pool" /\ pc = "pool_join"
  /\ A.rows = 0 /\ num_threads = 3 /\ Len(units) = 3

\* C16: multiply_async launches exactly R units per call, one for each row
\* index i of [0, R); the unit of row i computes every element of row i; with
\* R = 0 none is launched and the result is empty.
AsyncLaunchesRows ==
  (method = "async" /\ pc \in {"async_launch", "async_wait", "ret", "exit"}) =>
    /\ Len(units) = i /\ i <= A.rows
    /\ \A n \in 1..Len(units) : units[n].start = n - 1 /\ units[n].thread_rows = 1
    /\ pc # "async_launch" => Len(units) = A.rows
    /\ pc \in {"ret", "exit"} =>
         /\ \A x \in 0..(A.rows - 1), y \in 0..(B.cols - 1) :
              /\ returned["async"].val.data[x][y] = Dot(x, y, A.cols)
              /\ Len(writes[x][y]) = A.cols
              /\ Writers(x, y) \subseteq {x + 1}
         /\ A.rows = 0 =>
              /\ units = << >>
              /\ returned["async"].val = [rows |-> 0, cols |-> B.cols, data |-> << >>]

AsyncRowsReturned ==
  /\ method = "async" /\ pc = "ret"
  /\ A.rows = 2 /\ A.cols = 2 /\ B.cols = 2

\* C17: with A.cols = B.rows every index a multiplier or a unit uses is in
\* bounds: the row index below A.rows, the column index below B.cols, the
\* contraction index below A.cols, for A, B and the result.
InBounds(x, y, z) ==
  /\ x \in DOMAIN result.data /\ y \in DOMAIN result.data[x]
  /\ x \in DOMAIN A.data /\ z \in DOMAIN A.data[x]
  /\ z \in DOMAIN B.data /\ y \in DOMAIN B.data[z]
  /\ x < A.rows /\ y < B.cols /\ z < A.cols

IndicesInBounds ==
  A.cols = B.rows =>
    /\ (pc = "serial_loop" /\ i < A.rows /\ j < B.cols /\ k < A.cols)
         => InBounds(i, j, k)
    /\ (method \in Concurrent /\ InCall) =>
         \A n \in 1..Len(units) :
           Accessing(units[n]) => InBounds(units[n].i, units[n].j, units[n].k)

LastElementAccessed ==
  /\ method = "thread_pool" /\ pc = "pool_join" /\ num_threads = 2
  /\ A.rows = 2 /\ A.cols = 2 /\ B.cols = 2
  /\ units[2].st = "loaded" /\ units[2].i = 1 /\ units[2].j = 1 /\ units[2].k = 1

\* C18: in every multiplier result is a fresh A.rows x B.cols matrix, every row
\* of B.cols elements, every element zero, allocated whole before the first
\* unit is launched; its dimensions never change afterwards.
ResultAllocatedUpFront ==
  InCall =>
    /\ result.rows = A.rows /\ result.cols = B.cols
    /\ DOMAIN result.data = 0..(A.rows - 1)
    /\ DOMAIN writes = 0..(A.rows - 1)
    /\ \A x \in 0..(A.rows - 1) :
         /\ DOMAIN result.data[x] = 0..(B.cols - 1)
         /\ \A y \in 0..(B.cols - 1) : writes[x][y] = << >> => result.data[x][y] = 0
    /\ (units = << >> /\ pc \in {"async_launch", "pool_partition", "pool_launch"}) =>
         \A x \in 0..(A.rows - 1), y \in 0..(B.cols - 1) : result.data[x][y] = 0

AllocatedBeforeLaunch ==
  /\ method = "async" /\ pc = "async_launch" /\ units = << >>
  /\ A.rows = 2 /\ B.cols = 2 /\ A.cols = 2

\* C19: in multiply_async and multiply_thread_pool every output element is
\* owned by exactly one unit, which performs exactly K accumulation steps on
\* it, one per contraction index and in order; no element is skipped,
\* accumulated by two units, or accumulated more than K times.
Owners(x) == {n \in 1..Len(units) : x \in Rows(units[n])}

EveryElementAccumulatedOnce ==
  (method \in Concurrent /\ InCall /\ A.cols = B.rows) =>
    /\ \A n \in 1..Len(units) :
         Accessing(units[n]) => Len(writes[units[n].i][units[n].j]) = units[n].k
    /\ \A x \in DOMAIN writes : \A y \in DOMAIN writes[x] :
         /\ Len(writes[x][y]) <= A.cols
         /\ Writers(x, y) \subseteq Owners(x)
    /\ pc = "ret" =>
         \A x \in 0..(A.rows - 1), y \in 0..(B.cols - 1) :
           /\ Cardinality(Owners(x)) = 1
           /\ Len(writes[x][y]) = A.cols

\* What holds of C19 in the code: the same, unless multiply_thread_pool ran
\* with a parallelism of zero.
AccumulatedOnceWithPositiveParallelism ==
  (method = "thread_pool" /\ pc \notin {"call", "pool_partition"} /\ num_threads = 0)
    \/ EveryElementAccumulatedOnce

\* C20: the rows a unit works on are fixed when it is launched: the launcher
\* goes on advancing i (multiply_async) or start and thread_rows
\* (multiply_thread_pool) while earlier units run, and whatever the
\* interleaving a launched unit keeps the row or range it was given and stores
\* only into it.
LaunchFixesRows ==
  [][(method \in Concurrent /\ pc # "call") =>
       /\ \A n \in 1..Len(units) :
            /\ units'[n].start = units[n].start
            /\ units'[n].thread_rows = units[n].thread_rows
            /\ \A x \in DOMAIN writes : \A y \in DOMAIN writes[x] :
                 writes'[x][y] = Append(writes[x][y], n) => x \in Rows(units[n])
       /\ Len(units') > Len(units) =>
            /\ Len(units') = Len(units) + 1
            /\ units'[Len(units')].start = (IF method = "async" THEN i ELSE start)
            /\ units'[Len(units')].thread_rows =
                 (IF method = "async" THEN 1 ELSE start' - start)
            /\ (IF method = "async" THEN i' ELSE t') =
                 (IF method = "async" THEN i ELSE t) + 1
    ]_vars

LauncherAheadOfUnit ==
  /\ method = "async" /\ pc = "async_launch" /\ i = 2
  /\ units[1].st = "loaded" /\ units[1].k = 1
====
